---- MODULE Spec2Model ----
(***************************************************************************)
(* Model of update_data.py: the enrichment script that loads (or fetches   *)
(* and pins) the Jellyfin library snapshot, resolves genres per track      *)
(* through the genre cache and MusicBrainz, and writes out.json and the    *)
(* genre cache in its finally block.                                       *)
(*                                                                         *)
(* Text is modelled as sequences of one-character strings so that          *)
(* concatenation and str.lower() are computed character by character.      *)
(* A file on disk is [st, v]: st = "absent", "partial" (opened for writing *)
(* and truncated, dump not finished: not valid JSON) or "json" (a complete *)
(* dump: v is the value dumped, for the genre cache the list of members of *)
(* the JSON object written).                                               *)
(***************************************************************************)
EXTENDS Integers, Sequences, FiniteSets, TLC

\* ------------------------------------------------------------------ bounds
MaxRuns == 2
MaxLib == 2

\* ------------------------------------------------------- optional values
\* A JSON object field: missing from the dict, present with null, or a value.
Absent(d) == [tag |-> "absent", v |-> d]
Null(d) == [tag |-> "null", v |-> d]
Val(x) == [tag |-> "val", v |-> x]

\* Python truthiness of a field read with dict.get(key): a missing key gives
\* None, and None, "" and [] are all falsy.
Truthy(f) == f.tag = "val" /\ f.v # <<>>

\* ------------------------------------------------------------------ text
UpperChars == <<"A","B","C","D","E","F","G","H","I","J","K","L","M",
                "N","O","P","Q","R","S","T","U","V","W","X","Y","Z">>
LowerChars == <<"a","b","c","d","e","f","g","h","i","j","k","l","m",
                "n","o","p","q","r","s","t","u","v","w","x","y","z">>

LowerChar(c) ==
    IF \E i \in DOMAIN UpperChars : UpperChars[i] = c
    THEN LowerChars[CHOOSE i \in DOMAIN UpperChars : UpperChars[i] = c]
    ELSE c

\* str.lower()
Lower(s) == [i \in DOMAIN s |-> LowerChar(s[i])]

UnknownTitle == <<"U","n","k","n","o","w","n"," ","T","i","t","l","e">>
UnknownArtist == <<"U","n","k","n","o","w","n"," ","A","r","t","i","s","t">>
UnknownAlbum == "Unknown Album"
NoneText == <<"N","o","n","e">>
KeySep == <<":",":">>

\* str() of a value interpolated by an f-string: None prints as "None".
FmtText(t) == IF t.tag = "null" THEN NoneText ELSE t.v

TicksPerSecond == 10000000

\* ------------------------------------------------------------ the files
NoFile(d) == [st |-> "absent", v |-> d]
PartialFile(d) == [st |-> "partial", v |-> d]
\* json.dump of a value into a file that is then closed
JsonFile(x) == [st |-> "json", v |-> x]

EmptyCache == <<>>

\* faulty variant: each member is written over the previous one, so the file
\* ends up holding one member only
JsonDump_OneMember(cache) ==
    IF DOMAIN cache = {} THEN <<>>
    ELSE LET k == CHOOSE x \in DOMAIN cache : TRUE
         IN  <<[name |-> k, value |-> cache[k]]>>

\* json.dump of a dict: the JSON object as the list of its members, one per
\* key (json.load of an object does not depend on the order of its members,
\* so one order stands for the dict's insertion order)
RECURSIVE JsonDump(_)
JsonDump(cache) ==
    IF DOMAIN cache = {} THEN <<>>
    ELSE LET k == CHOOSE x \in DOMAIN cache : TRUE
         IN  <<[name |-> k, value |-> cache[k]]>>
             \o JsonDump([x \in DOMAIN cache \ {k} |-> cache[x]])

\* json.load of a JSON object: a dict with one key per member name, holding
\* the value of the last member of that name
JsonLoad(doc) ==
    [k \in {doc[i].name : i \in DOMAIN doc} |->
        doc[CHOOSE i \in DOMAIN doc :
                /\ doc[i].name = k
                /\ \A j \in DOMAIN doc : doc[j].name = k => j <= i].value]

\* the file after save_cache(cache, filepath) has returned
save_cache(cache) == JsonFile(JsonDump(cache))

\* ------------------------------------------------- raw track records
Track(name, albumArtist, artistList, genreList, ticks, album, year) ==
    [Name |-> name, AlbumArtist |-> albumArtist, Artists |-> artistList,
     Genres |-> genreList, RunTimeTicks |-> ticks, Album |-> album,
     ProductionYear |-> year]

\* {Name:"X", AlbumArtist:"A", Genres:["Rock"], RunTimeTicks:30000000}
TrackA == Track(Val(<<"X">>), Val(<<"A">>), Absent(<<>>), Val(<<"Rock">>),
                Val(30000000), Absent(""), Absent(0))
\* {Name:"Y", Artists:["B","C"], RunTimeTicks:null}
TrackB == Track(Val(<<"Y">>), Absent(<<>>), Val(<< <<"B">>, <<"C">> >>),
                Absent(<<>>), Null(0), Absent(""), Absent(0))
\* {Name:"y", AlbumArtist:"", Artists:["b"], Genres:[], Album:"LP",
\*  ProductionYear:1999}: the same compound key as TrackB, in lower case
TrackBl == Track(Val(<<"y">>), Val(<<>>), Val(<< <<"b">> >>), Val(<<>>),
                 Absent(0), Val("LP"), Val(1999))
\* {Genres:null, RunTimeTicks:25000000, Album:null}
TrackU == Track(Absent(<<>>), Absent(<<>>), Absent(<<>>), Null(<<>>),
                Val(25000000), Null(""), Absent(0))

TrackPool == {TrackA, TrackB, TrackBl, TrackU}

\* what the media server can return: every list of at most MaxLib tracks
Libraries == UNION {[1..n -> TrackPool] : n \in 0..MaxLib}

\* further records, for the derivation of one track's fields
\* {Name:"", AlbumArtist:null, Artists:[]}
TrackE == Track(Val(<<>>), Null(<<>>), Val(<<>>), Absent(<<>>),
                Absent(0), Absent(""), Absent(0))
\* {Name:null, AlbumArtist:"A", Artists:["B"]}
TrackN == Track(Null(<<>>), Val(<<"A">>), Val(<< <<"B">> >>), Absent(<<>>),
                Absent(0), Absent(""), Absent(0))
\* {Name:"X", Artists:["Unknown Artist", "C"], Genres:["Rock"]}
TrackS == Track(Val(<<"X">>), Absent(<<>>), Val(<<UnknownArtist, <<"C">> >>),
                Val(<<"Rock">>), Absent(0), Absent(""), Absent(0))

RecordPool == TrackPool \cup {TrackE, TrackN, TrackS}

RecordLibraries == UNION {[1..n -> RecordPool] : n \in 1..MaxLib}

\* ---------------------------------------------- per-track derivation
\* title = song.get('Name', 'Unknown Title')
Title(song) ==
    IF song.Name.tag = "absent" THEN Val(UnknownTitle) ELSE song.Name

\* faulty variant: the sentinel is put into the list when no artist is known
Artists_Sentinel(song) ==
    IF Truthy(song.AlbumArtist) THEN <<song.AlbumArtist.v>>
    ELSE IF Truthy(song.Artists) THEN song.Artists.v
    ELSE <<UnknownArtist>>

\* artists: AlbumArtist if truthy, else Artists if truthy, else []
Artists(song) ==
    IF Truthy(song.AlbumArtist) THEN <<song.AlbumArtist.v>>
    ELSE IF Truthy(song.Artists) THEN song.Artists.v
    ELSE <<>>

\* primary_artist = artists[0] if artists else 'Unknown Artist'
PrimaryArtist(song) ==
    IF Artists(song) # <<>> THEN Artists(song)[1] ELSE UnknownArtist

\* jellyfin_genres = song.get('Genres', [])
JellyfinGenres(song) ==
    IF song.Genres.tag = "absent" THEN Val(<<>>) ELSE song.Genres

\* faulty variant: the server's genres are ignored and every track is looked up
NeedsLookup_Always(song) == TRUE

\* if not jellyfin_genres:
NeedsLookup(song) == ~Truthy(JellyfinGenres(song))

\* genre_cache_key = f"{primary_artist}::{title}".lower()
GenreCacheKey(song) ==
    Lower(PrimaryArtist(song) \o KeySep \o FmtText(Title(song)))

\* song['RunTimeTicks'] / 10000000 raises TypeError when the value is None
DurationRaises(song) == song.RunTimeTicks.tag = "null"

\* duration_seconds: None when the key is missing, else ticks / 10000000,
\* kept exact as whole seconds plus the remaining ticks
DurationSeconds(song) ==
    IF song.RunTimeTicks.tag = "absent"
    THEN Null([sec |-> 0, frac |-> 0])
    ELSE Val([sec |-> song.RunTimeTicks.v \div TicksPerSecond,
              frac |-> song.RunTimeTicks.v % TicksPerSecond])

\* album_name = song.get('Album', 'Unknown Album')
AlbumName(song) ==
    IF song.Album.tag = "absent" THEN Val(UnknownAlbum) ELSE song.Album

\* release_year = song.get('ProductionYear')
ReleaseYear(song) ==
    IF song.ProductionYear.tag = "absent" THEN Null(0) ELSE song.ProductionYear

\* the dict appended to out
Enriched(song, g) ==
    [title |-> Title(song), artists |-> Artists(song),
     duration |-> DurationSeconds(song), genres |-> g,
     album |-> AlbumName(song), year |-> ReleaseYear(song)]

\* ------------------------------------------- the remote collaborators
TransportError == [ok |-> FALSE, items |-> <<>>]
\* get_jellyfin_library: raises RequestException or returns the item list
FetchResults == {TransportError} \cup {[ok |-> TRUE, items |-> l] : l \in Libraries}

TagLists == {<<>>, <<"Jazz">>}
Recording(hasTags, tags, credit) ==
    [kind |-> "recording", hasTags |-> hasTags, tags |-> tags, credit |-> credit]
\* musicbrainzngs.search_recordings(..., limit=1): WebServiceError, an empty
\* recording-list, or a recording with or without 'tag-list' / 'artist-credit'
SearchResults ==
    {[kind |-> "error", hasTags |-> FALSE, tags |-> <<>>, credit |-> "absent"],
     [kind |-> "nomatch", hasTags |-> FALSE, tags |-> <<>>, credit |-> "absent"]}
    \cup {Recording(TRUE, t, "absent") : t \in TagLists}
    \cup {Recording(FALSE, <<>>, c) : c \in {"absent", "empty", "present"}}
\* musicbrainzngs.get_artist_by_id(id, includes=['tags'])
ArtistResults ==
    {[kind |-> "error", hasTags |-> FALSE, tags |-> <<>>],
     [kind |-> "artist", hasTags |-> FALSE, tags |-> <<>>],
     [kind |-> "artist", hasTags |-> TRUE, tags |-> <<"Jazz">>]}

\* --------------------------------------------------------------- state
VARIABLES
    pc,            \* position of the script ("idle" before the first run)
    runNo,         \* number of runs started
    apiKey,        \* JELLYFIN_API_KEY is set
    userId,        \* JELLYFIN_USER_ID is set
    libFile,       \* jellyfin_library_cache.json
    genreFile,     \* genre_cache.json
    outFile,       \* out.json
    library,       \* the list being enriched
    genre_cache,   \* the in-memory genre cache
    out,           \* the enriched records
    idx,           \* position of the for loop in library (1-based)
    genres,        \* the genres of the track being processed
    err,           \* exception propagating through the finally block
    exitCode,      \* -1 while running, else the process exit status
    \* history of the current run
    start,         \* the three files as they were when the run started
    fetchLog,      \* what each call of get_jellyfin_library gave
    lookupLog,     \* compound keys get_genres was called for, in order
    served,        \* how the genres of the current track were obtained
    intr,          \* Len(out), out and genre_cache when the loop was interrupted
    finIntr,       \* an interrupt arrived during the finally block
    finalized      \* the finally block was entered

vars == <<pc, runNo, apiKey, userId, libFile, genreFile, outFile, library,
          genre_cache, out, idx, genres, err, exitCode, start, fetchLog,
          lookupLog, served, intr, finIntr, finalized>>

files == <<libFile, genreFile, outFile>>
env == <<apiKey, userId>>
mem == <<library, genre_cache, out, idx, genres>>
hist == <<start, fetchLog, lookupLog, served, intr, finIntr, finalized>>

\* intr while no interrupt has reached the try block
NotInterrupted == [at |-> -1, out |-> <<>>, cache |-> EmptyCache]
\* served while no track's genres are held
NotServed == [how |-> "", key |-> <<>>]
\* the ways get_genres ends with [] for want of an answer: WebServiceError,
\* an empty recording-list, a recording with neither tag-list nor artist-credit
NegativeHow == {"error", "nomatch", "notags_nocredit"}

\* exit status of the interpreter after an uncaught KeyboardInterrupt
ExitInterrupted == 130

Init ==
    /\ pc = "idle"
    /\ runNo = 0
    /\ apiKey = FALSE
    /\ userId = FALSE
    /\ libFile = NoFile(<<>>)
    /\ genreFile = NoFile(EmptyCache)
    /\ outFile = NoFile(<<>>)
    /\ library = <<>>
    /\ genre_cache = EmptyCache
    /\ out = <<>>
    /\ idx = 0
    /\ genres = <<>>
    /\ err = "none"
    /\ exitCode = -1
    /\ start = [lib |-> NoFile(<<>>), genre |-> NoFile(EmptyCache), out |-> NoFile(<<>>)]
    /\ fetchLog = <<>>
    /\ lookupLog = <<>>
    /\ served = NotServed
    /\ intr = NotInterrupted
    /\ finIntr = FALSE
    /\ finalized = FALSE

\* the operator starts the script with some environment
StartRun ==
    /\ pc \in {"idle", "exited"}
    /\ runNo < MaxRuns
    /\ pc' = "config"
    /\ runNo' = runNo + 1
    /\ apiKey' \in BOOLEAN
    /\ userId' \in BOOLEAN
    /\ library' = <<>>
    /\ genre_cache' = EmptyCache
    /\ out' = <<>>
    /\ idx' = 0
    /\ genres' = <<>>
    /\ err' = "none"
    /\ exitCode' = -1
    /\ start' = [lib |-> libFile, genre |-> genreFile, out |-> outFile]
    /\ fetchLog' = <<>>
    /\ lookupLog' = <<>>
    /\ served' = NotServed
    /\ intr' = NotInterrupted
    /\ finIntr' = FALSE
    /\ finalized' = FALSE
    /\ UNCHANGED files

\* exit(code), or the interpreter ending on an uncaught exception
Exit(code) ==
    /\ pc' = "exited"
    /\ exitCode' = code

\* lines 99-107: both credentials are required
CheckConfig ==
    /\ pc = "config"
    /\ IF apiKey /\ userId
       THEN pc' = "lib_check" /\ UNCHANGED exitCode
       ELSE Exit(1)
    /\ UNCHANGED <<runNo, env, files, mem, err, hist>>

\* faulty variant: the snapshot file is ignored and the server is always asked
CheckLibraryCache_AlwaysFetch ==
    /\ pc = "lib_check"
    /\ pc' = "fetch"
    /\ UNCHANGED <<runNo, env, files, mem, err, exitCode, hist>>

\* line 111: if not os.path.exists(JELLYFIN_CACHE_FILE)
CheckLibraryCache ==
    /\ pc = "lib_check"
    /\ pc' = IF libFile.st = "absent" THEN "fetch" ELSE "lib_load"
    /\ UNCHANGED <<runNo, env, files, mem, err, exitCode, hist>>

\* line 114: get_jellyfin_library returns the items
FetchLibrary ==
    /\ pc = "fetch"
    /\ \E r \in FetchResults :
        /\ r.ok
        /\ library' = r.items
        /\ fetchLog' = Append(fetchLog, r)
    /\ pc' = "lib_open"
    /\ UNCHANGED <<runNo, env, files, genre_cache, out, idx, genres, err, exitCode,
                   start, lookupLog, served, intr, finIntr, finalized>>

\* faulty variant: the handler goes on with an empty library instead of exit(1)
FetchFails_EmptyLibrary ==
    /\ pc = "fetch"
    /\ fetchLog' = Append(fetchLog, TransportError)
    /\ library' = <<>>
    /\ pc' = "lib_open"
    /\ UNCHANGED <<runNo, env, files, genre_cache, out, idx, genres, err, exitCode,
                   start, lookupLog, served, intr, finIntr, finalized>>

\* lines 114, 118-120: get_jellyfin_library raises RequestException
FetchFails ==
    /\ pc = "fetch"
    /\ TransportError \in FetchResults
    /\ fetchLog' = Append(fetchLog, TransportError)
    /\ Exit(1)
    /\ UNCHANGED <<runNo, env, files, mem, err, start, lookupLog, served,
                   intr, finIntr, finalized>>

\* line 115: open(JELLYFIN_CACHE_FILE, "w") truncates the file
OpenLibraryCache ==
    /\ pc = "lib_open"
    /\ libFile' = PartialFile(<<>>)
    /\ pc' = "lib_dump"
    /\ UNCHANGED <<runNo, env, genreFile, outFile, mem, err, exitCode, hist>>

\* line 116: json.dump(library, f) and the end of the with block
DumpLibraryCache ==
    /\ pc = "lib_dump"
    /\ libFile' = JsonFile(library)
    /\ pc' = "genre_load"
    /\ UNCHANGED <<runNo, env, genreFile, outFile, mem, err, exitCode, hist>>

\* lines 122-125: json.load of the snapshot; JSONDecodeError is not caught
LoadLibraryCache ==
    /\ pc = "lib_load"
    /\ IF libFile.st = "json"
       THEN /\ library' = libFile.v
            /\ pc' = "genre_load"
            /\ UNCHANGED exitCode
       ELSE /\ Exit(1)
            /\ UNCHANGED library
    /\ UNCHANGED <<runNo, env, files, genre_cache, out, idx, genres, err, hist>>

\* faulty variant: a file that does not parse is taken for an empty cache
load_cache_Lenient(file) ==
    [ok |-> TRUE, cache |-> IF file.st = "json" THEN JsonLoad(file.v) ELSE EmptyCache]

\* load_cache(filepath)
load_cache(file) ==
    IF file.st = "absent" THEN [ok |-> TRUE, cache |-> EmptyCache]
    ELSE IF file.st = "json" THEN [ok |-> TRUE, cache |-> JsonLoad(file.v)]
    ELSE [ok |-> FALSE, cache |-> EmptyCache]

\* faulty variant: the run starts from an empty cache whatever the file holds
LoadGenreCache_Fresh ==
    /\ pc = "genre_load"
    /\ IF load_cache(genreFile).ok
       THEN /\ genre_cache' = EmptyCache
            /\ out' = <<>>
            /\ idx' = 1
            /\ pc' = "loop"
            /\ UNCHANGED exitCode
       ELSE /\ Exit(1)
            /\ UNCHANGED <<genre_cache, out, idx>>
    /\ UNCHANGED <<runNo, env, files, library, genres, err, hist>>

\* lines 128-130: genre_cache = load_cache(GENRE_CACHE_FILE); out = []
LoadGenreCache ==
    /\ pc = "genre_load"
    /\ IF load_cache(genreFile).ok
       THEN /\ genre_cache' = load_cache(genreFile).cache
            /\ out' = <<>>
            /\ idx' = 1
            /\ pc' = "loop"
            /\ UNCHANGED exitCode
       ELSE /\ Exit(1)
            /\ UNCHANGED <<genre_cache, out, idx>>
    /\ UNCHANGED <<runNo, env, files, library, genres, err, hist>>

\* ------------------------------------------------- the per-track loop
Song == library[idx]

\* the for loop is exhausted: the try block ends normally
LoopDone ==
    /\ pc = "loop"
    /\ idx > Len(library)
    /\ pc' = "fin_open_out"
    /\ finalized' = TRUE
    /\ UNCHANGED <<runNo, env, files, mem, err, exitCode, start, fetchLog,
                   lookupLog, served, intr, finIntr>>

\* lines 147-159, else branch: genres = jellyfin_genres
TrackServerGenres ==
    /\ pc = "loop"
    /\ idx <= Len(library)
    /\ ~NeedsLookup(Song)
    /\ genres' = JellyfinGenres(Song).v
    /\ served' = [how |-> "server", key |-> <<>>]
    /\ pc' = "emit"
    /\ UNCHANGED <<runNo, env, files, library, genre_cache, out, idx, err, exitCode,
                   start, fetchLog, lookupLog, intr, finIntr, finalized>>

\* lines 153-154: genres = genre_cache[genre_cache_key]
TrackCacheHit ==
    /\ pc = "loop"
    /\ idx <= Len(library)
    /\ NeedsLookup(Song)
    /\ GenreCacheKey(Song) \in DOMAIN genre_cache
    /\ genres' = genre_cache[GenreCacheKey(Song)]
    /\ served' = [how |-> "cache", key |-> GenreCacheKey(Song)]
    /\ pc' = "emit"
    /\ UNCHANGED <<runNo, env, files, library, genre_cache, out, idx, err, exitCode,
                   start, fetchLog, lookupLog, intr, finIntr, finalized>>

\* lines 155-156: get_genres(primary_artist, title) is called
TrackCacheMiss ==
    /\ pc = "loop"
    /\ idx <= Len(library)
    /\ NeedsLookup(Song)
    /\ GenreCacheKey(Song) \notin DOMAIN genre_cache
    /\ lookupLog' = Append(lookupLog, GenreCacheKey(Song))
    /\ pc' = "search"
    /\ UNCHANGED <<runNo, env, files, mem, err, exitCode, start, fetchLog, served,
                   intr, finIntr, finalized>>

\* faulty variant: the result of get_genres is never put into the cache
StoreGenres_Dropped(cache, key, g) == cache

\* line 157: genre_cache[genre_cache_key] = genres
StoreGenres(cache, key, g) == (key :> g) @@ cache

\* faulty variant: only a non-empty result is cached ("if genres: cache[key] = genres")
ReturnGenres_SkipEmpty(g, how) ==
    /\ genres' = g
    /\ genre_cache' = IF g = <<>> THEN genre_cache
                      ELSE StoreGenres(genre_cache, GenreCacheKey(Song), g)
    /\ served' = [how |-> how, key |-> GenreCacheKey(Song)]
    /\ pc' = "emit"

\* get_genres returned g by the path how; line 157 stores it
ReturnGenres(g, how) ==
    /\ genres' = g
    /\ genre_cache' = StoreGenres(genre_cache, GenreCacheKey(Song), g)
    /\ served' = [how |-> how, key |-> GenreCacheKey(Song)]
    /\ pc' = "emit"

\* lines 73-83, 89-92: the answer to search_recordings
SearchRecordings ==
    /\ pc = "search"
    /\ \E r \in SearchResults :
        CASE r.kind = "error" -> ReturnGenres(<<>>, "error")
          [] r.kind = "nomatch" -> ReturnGenres(<<>>, "nomatch")
          [] r.kind = "recording" /\ r.hasTags -> ReturnGenres(r.tags, "tags")
          [] r.kind = "recording" /\ ~r.hasTags /\ r.credit = "present" ->
                /\ pc' = "artist"
                /\ UNCHANGED <<genres, genre_cache, served>>
          [] OTHER -> ReturnGenres(<<>>, "notags_nocredit")
    /\ UNCHANGED <<runNo, env, files, library, out, idx, err, exitCode, start,
                   fetchLog, lookupLog, intr, finIntr, finalized>>

\* lines 84-87, 89-92: the answer to get_artist_by_id
GetArtistById ==
    /\ pc = "artist"
    /\ \E r \in ArtistResults :
        CASE r.kind = "error" -> ReturnGenres(<<>>, "error")
          [] r.kind = "artist" /\ r.hasTags -> ReturnGenres(r.tags, "artist_tags")
          [] OTHER -> ReturnGenres(<<>>, "artist_notags")
    /\ UNCHANGED <<runNo, env, files, library, out, idx, err, exitCode, start,
                   fetchLog, lookupLog, intr, finIntr, finalized>>

\* faulty variant: out.json is rewritten after every record
EmitRecord_WritesOut ==
    /\ pc = "emit"
    /\ ~DurationRaises(Song)
    /\ out' = Append(out, Enriched(Song, genres))
    /\ outFile' = JsonFile(out')
    /\ idx' = idx + 1
    /\ genres' = <<>>
    /\ served' = NotServed
    /\ pc' = "loop"
    /\ UNCHANGED <<runNo, env, libFile, genreFile, library, genre_cache, err,
                   exitCode, start, fetchLog, lookupLog, intr, finIntr, finalized>>

\* lines 161-177: the record is built and appended
EmitRecord ==
    /\ pc = "emit"
    /\ ~DurationRaises(Song)
    /\ out' = Append(out, Enriched(Song, genres))
    /\ idx' = idx + 1
    /\ genres' = <<>>
    /\ served' = NotServed
    /\ pc' = "loop"
    /\ UNCHANGED <<runNo, env, files, library, genre_cache, err, exitCode, start,
                   fetchLog, lookupLog, intr, finIntr, finalized>>

\* faulty variant: the loop is guarded by except KeyboardInterrupt only, without a
\* finally block, so the TypeError ends the script at once
EmitTypeError_NoFinally ==
    /\ pc = "emit"
    /\ DurationRaises(Song)
    /\ err' = "TypeError"
    /\ genres' = <<>>
    /\ served' = NotServed
    /\ Exit(1)
    /\ UNCHANGED <<runNo, env, files, library, genre_cache, out, idx, start,
                   fetchLog, lookupLog, intr, finIntr, finalized>>

\* line 164: None / 10000000 raises TypeError, which only the finally
\* block handles
EmitTypeError ==
    /\ pc = "emit"
    /\ DurationRaises(Song)
    /\ err' = "TypeError"
    /\ genres' = <<>>
    /\ served' = NotServed
    /\ pc' = "fin_open_out"
    /\ finalized' = TRUE
    /\ UNCHANGED <<runNo, env, files, library, genre_cache, out, idx, exitCode,
                   start, fetchLog, lookupLog, intr, finIntr>>

\* lines 134-177 run from track i to the end without an interrupt, the genre
\* service answering key k with ans[k]: the records appended to acc
RECURSIVE SingleRunFrom(_, _, _, _, _)
SingleRunFrom(lib, i, cache, ans, acc) ==
    IF i > Len(lib) THEN acc
    ELSE LET song == lib[i]
             key == GenreCacheKey(song)
             hit == key \in DOMAIN cache
             g == IF ~NeedsLookup(song) THEN JellyfinGenres(song).v
                  ELSE IF hit THEN cache[key]
                  ELSE IF key \in DOMAIN ans THEN ans[key]
                  ELSE <<"unanswered">>
             after == IF NeedsLookup(song) /\ ~hit
                      THEN StoreGenres(cache, key, g) ELSE cache
         IN  IF DurationRaises(song) THEN acc
             ELSE SingleRunFrom(lib, i + 1, after, ans,
                                Append(acc, Enriched(song, g)))

\* what one uninterrupted pass over lib leaves in out, starting from cache
SingleRun(lib, cache, ans) == SingleRunFrom(lib, 1, cache, ans, <<>>)

\* ------------------------------------------------------ finalization
\* line 183: open("out.json", "w")
OpenOut ==
    /\ pc = "fin_open_out"
    /\ outFile' = PartialFile(<<>>)
    /\ pc' = "fin_dump_out"
    /\ UNCHANGED <<runNo, env, libFile, genreFile, mem, err, exitCode, hist>>

\* line 184: json.dump(out, f, indent=2)
DumpOut ==
    /\ pc = "fin_dump_out"
    /\ outFile' = JsonFile(out)
    /\ pc' = "fin_open_genre"
    /\ UNCHANGED <<runNo, env, libFile, genreFile, mem, err, exitCode, hist>>

\* save_cache, line 20: open(filepath, "w")
OpenGenreCache ==
    /\ pc = "fin_open_genre"
    /\ genreFile' = PartialFile(EmptyCache)
    /\ pc' = "fin_dump_genre"
    /\ UNCHANGED <<runNo, env, libFile, outFile, mem, err, exitCode, hist>>

\* the keys of a cache that hold an empty genre list
EmptyKeys(cache) == {k \in DOMAIN cache : cache[k] = <<>>}

\* faulty variant: only the keys looked up in this run are saved
DumpGenreCache_OnlyNew ==
    /\ pc = "fin_dump_genre"
    /\ genreFile' = save_cache([k \in {lookupLog[i] : i \in 1..Len(lookupLog)}
                                    \cap DOMAIN genre_cache |-> genre_cache[k]])
    /\ Exit(IF err = "none" THEN 0 ELSE 1)
    /\ UNCHANGED <<runNo, env, libFile, outFile, mem, err, hist>>

\* save_cache, line 21: json.dump(cache, f, indent=2); then the script ends,
\* re-raising the exception the finally block interrupted, if any
DumpGenreCache ==
    /\ pc = "fin_dump_genre"
    /\ genreFile' = save_cache(genre_cache)
    /\ Exit(IF err = "none" THEN 0 ELSE 1)
    /\ UNCHANGED <<runNo, env, libFile, outFile, mem, err, hist>>

\* ------------------------------------------------ operator interrupt
BeforeTry == {"config", "lib_check", "fetch", "lib_open", "lib_dump",
              "lib_load", "genre_load"}
InTry == {"loop", "search", "artist", "emit"}
InFinally == {"fin_open_out", "fin_dump_out", "fin_open_genre", "fin_dump_genre"}

\* KeyboardInterrupt outside the try block: nothing catches it
InterruptBeforeTry ==
    /\ pc \in BeforeTry
    /\ Exit(ExitInterrupted)
    /\ UNCHANGED <<runNo, env, files, mem, err, hist>>

\* faulty variant: a lookup cut short by the interrupt is stored as "no genres"
InterruptInTry_StoresEmpty ==
    /\ pc \in InTry
    /\ intr' = [at |-> Len(out), out |-> out, cache |-> genre_cache]
    /\ genre_cache' = IF pc \in {"search", "artist"}
                      THEN StoreGenres(genre_cache, GenreCacheKey(Song), <<>>)
                      ELSE genre_cache
    /\ genres' = <<>>
    /\ served' = NotServed
    /\ pc' = "fin_open_out"
    /\ finalized' = TRUE
    /\ UNCHANGED <<runNo, env, files, library, out, idx, err, exitCode,
                   start, fetchLog, lookupLog, finIntr>>

\* faulty variant: no except/finally around the loop, the interrupt ends the script
InterruptInTry_Uncaught ==
    /\ pc \in InTry
    /\ intr' = [at |-> Len(out), out |-> out, cache |-> genre_cache]
    /\ genres' = <<>>
    /\ served' = NotServed
    /\ Exit(ExitInterrupted)
    /\ UNCHANGED <<runNo, env, files, library, genre_cache, out, idx, err,
                   start, fetchLog, lookupLog, finIntr, finalized>>

\* lines 179-181: KeyboardInterrupt inside the try block is caught and the
\* finally block runs
InterruptInTry ==
    /\ pc \in InTry
    /\ intr' = [at |-> Len(out), out |-> out, cache |-> genre_cache]
    /\ genres' = <<>>
    /\ served' = NotServed
    /\ pc' = "fin_open_out"
    /\ finalized' = TRUE
    /\ UNCHANGED <<runNo, env, files, library, genre_cache, out, idx, err, exitCode,
                   start, fetchLog, lookupLog, finIntr>>

\* KeyboardInterrupt inside the finally block: the rest of it is skipped
InterruptInFinally ==
    /\ pc \in InFinally
    /\ finIntr' = TRUE
    /\ Exit(ExitInterrupted)
    /\ UNCHANGED <<runNo, env, files, mem, err, start, fetchLog, lookupLog, served,
                   intr, finalized>>

Next ==
    \/ StartRun
    \/ CheckConfig
    \/ CheckLibraryCache
    \/ FetchLibrary
    \/ FetchFails
    \/ OpenLibraryCache
    \/ DumpLibraryCache
    \/ LoadLibraryCache
    \/ LoadGenreCache
    \/ LoopDone
    \/ TrackServerGenres
    \/ TrackCacheHit
    \/ TrackCacheMiss
    \/ SearchRecordings
    \/ GetArtistById
    \/ EmitRecord
    \/ EmitTypeError
    \/ OpenOut
    \/ DumpOut
    \/ OpenGenreCache
    \/ DumpGenreCache
    \/ InterruptBeforeTry
    \/ InterruptInTry
    \/ InterruptInFinally

Spec == Init /\ [][Next]_vars

\* ----------------------------------------------- the per-track pass alone
\* The state at line 132 of a first run, with both credentials set, that found
\* no file and fetched a library of records of any shape.
TrackInit ==
    /\ pc = "loop"
    /\ runNo = 1
    /\ apiKey = TRUE
    /\ userId = TRUE
    /\ library \in RecordLibraries
    /\ libFile = JsonFile(library)
    /\ genreFile = NoFile(EmptyCache)
    /\ outFile = NoFile(<<>>)
    /\ genre_cache = EmptyCache
    /\ out = <<>>
    /\ idx = 1
    /\ genres = <<>>
    /\ err = "none"
    /\ exitCode = -1
    /\ start = [lib |-> NoFile(<<>>), genre |-> NoFile(EmptyCache), out |-> NoFile(<<>>)]
    /\ fetchLog = <<[ok |-> TRUE, items |-> library]>>
    /\ lookupLog = <<>>
    /\ served = NotServed
    /\ intr = NotInterrupted
    /\ finIntr = FALSE
    /\ finalized = FALSE

\* lines 132-188
TrackNext ==
    \/ LoopDone
    \/ TrackServerGenres
    \/ TrackCacheHit
    \/ TrackCacheMiss
    \/ SearchRecordings
    \/ GetArtistById
    \/ EmitRecord
    \/ EmitTypeError
    \/ OpenOut
    \/ DumpOut
    \/ OpenGenreCache
    \/ DumpGenreCache
    \/ InterruptInTry
    \/ InterruptInFinally

TrackSpec == TrackInit /\ [][TrackNext]_vars

\* Every step is a step of the script or of its environment answering it;
\* the operator eventually starts the next run.
FairSpec == Spec /\ WF_vars(Next)

TypeOK ==
    /\ pc \in {"idle", "exited"} \cup BeforeTry \cup InTry \cup InFinally
    /\ runNo \in 0..MaxRuns
    /\ exitCode \in {-1, 0, 1, ExitInterrupted}
    /\ Len(out) <= Len(library)

\* ------------------------------------------------------------- claims
\* out.json and the genre cache file hold what the run accumulated
FinalizationDone ==
    /\ finalized
    /\ outFile = JsonFile(out)
    /\ genreFile = save_cache(genre_cache)

\* the run reached the per-track loop (idx is 0 until out = [] at line 130)
ReachedLoop == idx >= 1

ConfigMissing == ~(apiKey /\ userId)

\* get_jellyfin_library was called in this run and raised
FetchFailed == fetchLog = <<TransportError>>

\* C1: an operator interrupt that arrives during the per-track loop after k
\* records were appended always leads to the end of the run, and, unless a
\* further interrupt cuts the finally block short, the run ends with out.json
\* holding exactly those k records, the genre cache file holding every entry
\* the cache had at the interrupt, and exit code zero.
C1_SoftCancelFinalizes ==
    /\ [](intr.at >= 0 =>
            /\ finalized
            /\ intr.at = Len(intr.out)
            /\ intr.at <= Len(library)
            /\ (pc = "exited" /\ ~finIntr =>
                  /\ outFile = JsonFile(intr.out)
                  /\ genreFile = save_cache(intr.cache)
                  /\ exitCode = 0))
    /\ ((intr.at >= 0) ~> (pc = "exited"))

\* a run interrupted after one of its two tracks, finished with exit code 0
C1_Witness ==
    /\ pc = "exited"
    /\ intr.at = 1
    /\ Len(library) = 2
    /\ ~finIntr
    /\ exitCode = 0
    /\ outFile = JsonFile(intr.out)
    /\ intr.cache # EmptyCache

\* C2 (as stated): every run that ends has executed finalization, except
\* after missing configuration or a transport error of the uncached fetch.
C2_FinalizeOnEveryPath ==
    pc = "exited" => (ConfigMissing \/ FetchFailed \/ FinalizationDone)

\* C2 (amended): every run that reaches the per-track loop enters the finally
\* block, however the loop ends (exhausted, interrupted, or a track raising),
\* and completes it unless an interrupt arrives inside the finally block;
\* a run that ends before the loop (missing configuration, transport error,
\* malformed snapshot or genre cache file, interrupt) writes neither out.json
\* nor the genre cache file.
C2_FinalizeOncePastLoad ==
    /\ [](pc = "exited" =>
            /\ ReachedLoop => finalized /\ (finIntr \/ FinalizationDone)
            /\ ~ReachedLoop => ~finalized /\ outFile = start.out
                                          /\ genreFile = start.genre)
    /\ [][(pc \in InTry /\ pc' \notin InTry) => (pc' = "fin_open_out")]_vars
    /\ ((ReachedLoop /\ pc # "exited") ~> finalized)

\* finalization completed on the error path: a track raised TypeError
C2_Witness ==
    /\ pc = "exited"
    /\ err = "TypeError"
    /\ FinalizationDone
    /\ exitCode = 1

\* the record carries a non-empty list of genres from the server
HasServerGenres(song) == song.Genres.tag = "val" /\ song.Genres.v # <<>>

\* a call of get_genres is in flight for the current track
LookupInFlight == pc \in {"search", "artist"}

\* C3: a track whose Genres field is a non-empty list gets exactly that list
\* as the genres of its record, no remote lookup is ever in flight for it,
\* its genres are not served from the cache, and no step taken while it is
\* the current track changes the genre cache or starts a lookup.
C3_ServerGenresWin ==
    /\ [](/\ \A i \in 1..Len(out) :
               HasServerGenres(library[i]) => out[i].genres = library[i].Genres.v
          /\ LookupInFlight => ~HasServerGenres(Song)
          /\ (pc = "emit" /\ HasServerGenres(Song)) =>
                (served.how = "server" /\ genres = Song.Genres.v))
    /\ [][(pc \in InTry /\ idx <= Len(library) /\ HasServerGenres(library[idx]))
            => (genre_cache' = genre_cache /\ lookupLog' = lookupLog)]_vars

\* the second track came with server genres, after a first one was looked up
C3_Witness ==
    /\ pc = "loop"
    /\ Len(out) = 2
    /\ HasServerGenres(library[2])
    /\ out[2].genres = <<"Rock">>
    /\ Len(lookupLog) = 1
    /\ DOMAIN genre_cache = {lookupLog[1]}

\* C4: within a run no compound key is looked up twice, and a track without
\* server genres whose key equals that of an earlier such track (letter case
\* of artist and title notwithstanding) starts no lookup and gets the earlier
\* track's genre list from the cache.
C4_OneLookupPerKey ==
    /\ \A i, j \in 1..Len(lookupLog) : i # j => lookupLog[i] # lookupLog[j]
    /\ \A i, j \in 1..Len(out) :
          (/\ i < j
           /\ ~HasServerGenres(library[i])
           /\ ~HasServerGenres(library[j])
           /\ GenreCacheKey(library[i]) = GenreCacheKey(library[j]))
          => out[j].genres = out[i].genres
    /\ (pc \in {"search", "artist", "emit"} /\ ~HasServerGenres(Song)) =>
          \A i \in 1..Len(out) :
             (/\ ~HasServerGenres(library[i])
              /\ GenreCacheKey(library[i]) = GenreCacheKey(Song))
             => (pc = "emit" /\ served.how = "cache" /\ genres = out[i].genres)

\* the second track differs from the first in letter case only and is served
\* from the entry the first track's lookup stored
C4_Witness ==
    /\ pc = "emit"
    /\ idx = 2
    /\ served.how = "cache"
    /\ library[1].Name # library[2].Name
    /\ Lower(library[1].Name.v) = Lower(library[2].Name.v)
    /\ lookupLog = <<GenreCacheKey(Song)>>
    /\ genres = out[1].genres

\* C5: when get_genres ends by a service error, no match, or a recording with
\* neither tags nor artist credit, the track's genres are the empty list, the
\* cache holds the empty list under the track's key, the record emitted
\* carries the empty list, and no lookup ever starts for a key that holds an
\* empty list in the cache, or held one in the genre cache file that an
\* earlier run saved and this run started with.
C5_NegativeResultCached ==
    /\ []((pc = "emit" /\ served.how \in NegativeHow) =>
            /\ genres = <<>>
            /\ served.key \in DOMAIN genre_cache
            /\ genre_cache[served.key] = <<>>)
    /\ [][(pc = "emit" /\ served.how \in NegativeHow /\ pc' = "loop")
            => (out'[Len(out')].genres = <<>>)]_vars
    /\ [][(Len(lookupLog') = Len(lookupLog) + 1)
            => (/\ lookupLog'[Len(lookupLog')] \notin EmptyKeys(genre_cache)
                /\ start.genre.st = "json" =>
                      lookupLog'[Len(lookupLog')] \notin EmptyKeys(JsonLoad(start.genre.v)))]_vars

\* in a second run a track is served the empty list that the first run saved
C5_Witness ==
    /\ runNo = 2
    /\ pc = "emit"
    /\ served.how = "cache"
    /\ start.genre.st = "json"
    /\ served.key \in EmptyKeys(JsonLoad(start.genre.v))
    /\ genres = <<>>
    /\ lookupLog = <<>>

\* no operator interrupt arrived after the run reached the loop
Uninterrupted == intr.at = -1 /\ ~finIntr

\* C6: a run that reached the loop and was never interrupted ends with all N
\* library tracks processed, N records emitted and no error raised, whatever
\* the records carry and whatever the lookups answer.
C6_EveryTrackProcessed ==
    (pc = "exited" /\ ReachedLoop /\ Uninterrupted) =>
        (Len(out) = Len(library) /\ err = "none" /\ exitCode = 0)

KeyBY == <<"b", ":", ":", "y">>
KeyAX == <<"a", ":", ":", "x">>

ExpectedX ==
    [title |-> Val(<<"X">>), artists |-> << <<"A">> >>,
     duration |-> Val([sec |-> 3, frac |-> 0]), genres |-> <<"Rock">>,
     album |-> Val("Unknown Album"), year |-> Null(0)]
ExpectedY ==
    [title |-> Val(<<"Y">>), artists |-> << <<"B">>, <<"C">> >>,
     duration |-> Null([sec |-> 0, frac |-> 0]), genres |-> <<"Jazz">>,
     album |-> Val("Unknown Album"), year |-> Null(0)]

\* the end-to-end scenario: no snapshot file, the server returned tracks (a)
\* and (b), the one lookup of the run was for (b) and answered ["Jazz"]
ScenarioRan ==
    /\ pc = "exited"
    /\ start.lib.st = "absent"
    /\ start.genre.st = "absent"
    /\ fetchLog = <<[ok |-> TRUE, items |-> <<TrackA, TrackB>>]>>
    /\ library = <<TrackA, TrackB>>
    /\ Uninterrupted
    /\ lookupLog = <<KeyBY>>
    /\ KeyBY \in DOMAIN genre_cache
    /\ genre_cache[KeyBY] = <<"Jazz">>

\* C7: the end-to-end scenario completes normally with the two expected
\* records in out.json and the saved genre cache mapping "b::y" to ["Jazz"]
\* and nothing for track (a).
C7_EndToEndScenario ==
    ScenarioRan =>
        /\ exitCode = 0
        /\ err = "none"
        /\ outFile = JsonFile(<<ExpectedX, ExpectedY>>)
        /\ genreFile = save_cache(KeyBY :> <<"Jazz">>)
        /\ KeyAX \notin DOMAIN JsonLoad(genreFile.v)

\* C8: the output is always the enrichment of a prefix of the library, in
\* library order, and a run whose loop was not interrupted has all N records
\* when it finalizes.
C8_OutputIsLibraryPrefix ==
    /\ Len(out) <= Len(library)
    /\ \A i \in 1..Len(out) :
          /\ out[i] = Enriched(library[i], out[i].genres)
          /\ out[i].genres = IF HasServerGenres(library[i])
                             THEN library[i].Genres.v
                             ELSE genre_cache[GenreCacheKey(library[i])]
    /\ (finalized /\ intr.at = -1) => Len(out) = Len(library)

\* C9: a run that finds the snapshot file never calls the server, leaves the
\* file alone and enriches its content; a run that does not find it has
\* called the server exactly once by the time the loop starts, enriches what
\* the call returned and has written just that to the file; and a snapshot
\* file, once written, is never changed by this or any later run, so every
\* later run enriches that same list without a fetch.
C9_SnapshotPinning ==
    /\ [](/\ Len(fetchLog) <= 1
          /\ start.lib.st # "absent" =>
                /\ fetchLog = <<>>
                /\ libFile = start.lib
                /\ ReachedLoop => start.lib = JsonFile(library)
          /\ (start.lib.st = "absent" /\ ReachedLoop) =>
                /\ fetchLog = <<[ok |-> TRUE, items |-> library]>>
                /\ libFile = JsonFile(library))
    /\ [][(libFile.st = "json") => (libFile' = libFile)]_vars

\* the second run enriches, without a fetch, the list the first run fetched
\* and wrote
C9_Witness ==
    /\ runNo = 2
    /\ pc = "emit"
    /\ fetchLog = <<>>
    /\ Len(library) = 2
    /\ start.lib = JsonFile(library)
    /\ libFile = start.lib

\* C10: after a transport error of the uncached fetch the run has ended with
\* exit code 1, the snapshot file is still absent, out.json and the genre
\* cache file are as they were at the start, and no lookup was made.
C10_FetchFailureWritesNothing ==
    FetchFailed =>
        /\ pc = "exited"
        /\ exitCode = 1
        /\ start.lib.st = "absent"
        /\ libFile = start.lib
        /\ outFile = start.out
        /\ genreFile = start.genre
        /\ lookupLog = <<>>
        /\ ~ReachedLoop
        /\ ~finalized

\* the fetch of a second run failed (the first was interrupted before it
\* wrote the snapshot)
C10_Witness ==
    /\ runNo = 2
    /\ FetchFailed
    /\ pc = "exited"
    /\ exitCode = 1
    /\ libFile.st = "absent"

\* the file exists but does not parse as JSON
Malformed(file) == file.st = "partial"

\* C11: a run that starts with a malformed snapshot file never calls the
\* media server, never gets past the snapshot load and ends there with exit
\* status 1 (or by an interrupt); a run that starts with a malformed genre
\* cache file never reaches the loop, makes no lookup, holds no cache and
\* ends at the genre cache load with exit status 1 (or by an interrupt); in
\* both cases the malformed file, out.json and the other cache file's
\* content are never written by finalization.
C11_MalformedCacheIsFatal ==
    /\ [](Malformed(start.lib) =>
            /\ pc \in {"config", "lib_check", "lib_load", "exited"}
            /\ fetchLog = <<>>
            /\ library = <<>>
            /\ libFile = start.lib
            /\ genreFile = start.genre
            /\ outFile = start.out
            /\ ~ReachedLoop /\ ~finalized /\ lookupLog = <<>>
            /\ pc = "exited" => exitCode \in {1, ExitInterrupted})
    /\ [](Malformed(start.genre) =>
            /\ pc \in BeforeTry \cup {"exited"}
            /\ genre_cache = EmptyCache
            /\ genreFile = start.genre
            /\ outFile = start.out
            /\ ~ReachedLoop /\ ~finalized /\ lookupLog = <<>>
            /\ pc = "exited" => exitCode \in {1, ExitInterrupted})
    /\ [][(pc = "lib_load" /\ Malformed(libFile))
            => (pc' = "exited" /\ exitCode' \in {1, ExitInterrupted})]_vars
    /\ [][(pc = "genre_load" /\ Malformed(genreFile))
            => (pc' = "exited" /\ exitCode' \in {1, ExitInterrupted})]_vars

\* a second run ended at the load of the genre cache file that the first run
\* left half-written, with the snapshot in place
C11_Witness ==
    /\ runNo = 2
    /\ pc = "exited"
    /\ exitCode = 1
    /\ apiKey /\ userId
    /\ Malformed(start.genre)
    /\ genreFile = start.genre
    /\ libFile.st = "json"
    /\ fetchLog = <<>>

\* every mapping that holds part of the entries of m
SubMappings(m) == {[k \in D |-> m[k]] : D \in SUBSET DOMAIN m}

\* C12: a run that starts from the snapshot and the genre cache file an
\* earlier (soft-cancelled) run saved never looks up a key that file holds;
\* and when it ends without having been interrupted, the out.json it wrote is
\* what a single uninterrupted pass over the same library writes when the
\* genre service gives each key the answer it gave in these runs, whatever
\* part of the saved cache that single pass starts from.
C12_ResumedRunEqualsSingleRun ==
    (start.lib.st = "json" /\ start.genre.st = "json") =>
        /\ \A i \in 1..Len(lookupLog) : lookupLog[i] \notin DOMAIN JsonLoad(start.genre.v)
        /\ (pc = "exited" /\ ReachedLoop /\ Uninterrupted) =>
              /\ library = start.lib.v
              /\ \A c0 \in SubMappings(JsonLoad(start.genre.v)) :
                    outFile = JsonFile(SingleRun(library, c0, genre_cache))

\* the first run was cancelled after the first of two tracks, whose looked-up
\* genres it saved; the second run looked up the other track only and wrote
\* both records
C12_Witness ==
    /\ runNo = 2
    /\ pc = "exited"
    /\ Uninterrupted
    /\ start.lib = JsonFile(library)
    /\ start.genre.st = "json"
    /\ start.out.st = "json"
    /\ Len(start.out.v) = 1
    /\ Len(library) = 2
    /\ outFile.st = "json"
    /\ Len(outFile.v) = 2
    /\ DOMAIN JsonLoad(start.genre.v) = {GenreCacheKey(library[1])}
    /\ lookupLog = <<GenreCacheKey(library[2])>>
    /\ JsonLoad(start.genre.v)[GenreCacheKey(library[1])] # <<>>

\* the mapping line 128 loaded (the file is not written before the load)
LoadedCache == load_cache(start.genre).cache

\* the keys get_genres was called for in this run
LookedUp == {lookupLog[i] : i \in 1..Len(lookupLog)}

\* C13: from the load of the genre cache to the end of the run every entry
\* loaded from the file is in the cache with its loaded value, every other
\* key of the cache is one that was looked up in this run, and every key
\* looked up is in the cache except one whose lookup an interrupt cut short;
\* the cache changes only when a lookup returns, and then by gaining the
\* looked-up key, not held before, with the answer; and the file that
\* finalization saves is the cache, that is the loaded mapping plus the keys
\* resolved in this run.
C13_CacheOnlyGrows ==
    /\ [](ReachedLoop =>
            /\ \A k \in DOMAIN LoadedCache :
                  k \in DOMAIN genre_cache /\ genre_cache[k] = LoadedCache[k]
            /\ DOMAIN genre_cache \ DOMAIN LoadedCache \subseteq LookedUp
            /\ LookedUp \cap DOMAIN LoadedCache = {}
            /\ \A i \in 1..(Len(lookupLog) - 1) : lookupLog[i] \in DOMAIN genre_cache
            /\ (intr.at = -1 /\ ~LookupInFlight) => LookedUp \subseteq DOMAIN genre_cache
            /\ (pc = "exited" /\ ~finIntr) =>
                  /\ genreFile = save_cache(genre_cache)
                  /\ DOMAIN JsonLoad(genreFile.v) \subseteq DOMAIN LoadedCache \cup LookedUp)
    /\ [][(ReachedLoop /\ runNo' = runNo /\ genre_cache' # genre_cache) =>
            /\ LookupInFlight /\ pc' = "emit"
            /\ lookupLog[Len(lookupLog)] \notin DOMAIN genre_cache
            /\ genre_cache' = StoreGenres(genre_cache, lookupLog[Len(lookupLog)], genres')
            /\ \A k \in DOMAIN genre_cache :
                  k \in DOMAIN genre_cache' /\ genre_cache'[k] = genre_cache[k]]_vars
    /\ [][(LookupInFlight /\ pc' = "emit") =>
            DOMAIN genre_cache' = DOMAIN genre_cache \cup {lookupLog[Len(lookupLog)]}]_vars

\* a second run saved the entry it loaded together with the one it resolved
C13_Witness ==
    /\ runNo = 2
    /\ pc = "exited"
    /\ Uninterrupted
    /\ finalized
    /\ Len(lookupLog) = 1
    /\ Cardinality(DOMAIN LoadedCache) = 1
    /\ genreFile.st = "json"
    /\ DOMAIN JsonLoad(genreFile.v) = DOMAIN LoadedCache \cup {lookupLog[1]}
    /\ Cardinality(DOMAIN JsonLoad(genreFile.v)) = 2

\* mappings from compound keys to genre lists, beyond those the runs build
SampleCaches ==
    UNION {[D -> {<<>>, <<"Jazz">>, <<"Rock", "Jazz">>}] : D \in SUBSET {KeyAX, <<>>}}

\* C14: loading what save_cache wrote gives back the mapping saved, for the
\* sample mappings and for every cache a run holds; the file a completed
\* finalization leaves loads as the cache the run held, and that is the file
\* the next run finds, so a run enters the loop with the cache the previous
\* run saved; and load_cache of a file that does not exist gives the empty
\* mapping without raising.
C14_CacheRoundTrip ==
    /\ [](/\ \A m \in SampleCaches :
                load_cache(save_cache(m)) = [ok |-> TRUE, cache |-> m]
          /\ load_cache(save_cache(genre_cache)) = [ok |-> TRUE, cache |-> genre_cache]
          /\ load_cache(NoFile(EmptyCache)) = [ok |-> TRUE, cache |-> EmptyCache]
          /\ (pc = "exited" /\ finalized /\ ~finIntr) =>
                load_cache(genreFile) = [ok |-> TRUE, cache |-> genre_cache]
          /\ (pc = "loop" /\ idx = 1 /\ lookupLog = <<>>) =>
                /\ load_cache(start.genre).ok
                /\ genre_cache = load_cache(start.genre).cache
                /\ start.genre.st = "absent" => genre_cache = EmptyCache)
    /\ [][(pc = "exited" /\ pc' = "config") =>
            (start'.genre = genreFile /\ genreFile' = genreFile)]_vars

\* a run enters the loop with the two entries, one of them empty, that the
\* previous run saved
C14_Witness ==
    /\ runNo = 2
    /\ pc = "loop"
    /\ idx = 1
    /\ start.genre.st = "json"
    /\ Len(start.genre.v) = 2
    /\ Cardinality(DOMAIN genre_cache) = 2
    /\ EmptyKeys(genre_cache) # {}
    /\ EmptyKeys(genre_cache) # DOMAIN genre_cache
    /\ start.genre = save_cache(genre_cache)

\* the title the record should get: its Name, or "Unknown Title" when the
\* Name is missing or empty
ExpectedTitle(song) ==
    IF song.Name.tag = "val" /\ song.Name.v # <<>>
    THEN Val(song.Name.v) ELSE Val(UnknownTitle)

\* C15: every record emitted carries its track's Name as title, or "Unknown
\* Title" when the Name is absent or empty, and every key looked up or
\* served from the cache is built from that same title.
C15_TitleDefault ==
    /\ \A i \in 1..Len(out) : out[i].title = ExpectedTitle(library[i])
    /\ (pc \in {"search", "artist"}) =>
          lookupLog[Len(lookupLog)] =
              Lower(PrimaryArtist(Song) \o KeySep \o ExpectedTitle(Song).v)
    /\ (pc = "emit" /\ served.how # "server") =>
          served.key = Lower(PrimaryArtist(Song) \o KeySep \o ExpectedTitle(Song).v)

\* the artists the record should get
ExpectedArtists(song) ==
    IF song.AlbumArtist.tag = "val" /\ song.AlbumArtist.v # <<>>
    THEN <<song.AlbumArtist.v>>
    ELSE IF song.Artists.tag = "val" /\ song.Artists.v # <<>>
    THEN song.Artists.v
    ELSE <<>>

\* the artist the lookup should be made for
ExpectedPrimary(song) ==
    IF ExpectedArtists(song) # <<>> THEN ExpectedArtists(song)[1]
    ELSE UnknownArtist

\* the record names "Unknown Artist" itself
CarriesUnknownArtist(song) ==
    \/ song.AlbumArtist = Val(UnknownArtist)
    \/ /\ song.Artists.tag = "val"
       /\ \E j \in DOMAIN song.Artists.v : song.Artists.v[j] = UnknownArtist

\* C16: every record emitted has artists [AlbumArtist] when AlbumArtist is
\* present and non-empty, else the Artists list as it came when that is
\* present and non-empty, else the empty list; "Unknown Artist" is in a
\* record's artists only when the track carried it; and every key looked up
\* or served from the cache starts with the first of those artists, or with
\* "Unknown Artist" when there is none, in lower case.
C16_ArtistsDerivation ==
    /\ \A i \in 1..Len(out) :
          /\ out[i].artists = ExpectedArtists(library[i])
          /\ (\E j \in DOMAIN out[i].artists : out[i].artists[j] = UnknownArtist)
                => CarriesUnknownArtist(library[i])
    /\ (pc \in {"search", "artist"}) =>
          lookupLog[Len(lookupLog)] =
              Lower(ExpectedPrimary(Song) \o KeySep \o FmtText(Title(Song)))
    /\ (pc = "emit" /\ served.how # "server") =>
          served.key = Lower(ExpectedPrimary(Song) \o KeySep \o FmtText(Title(Song)))

\* a track without artists was looked up under "unknown artist" and emitted
\* with an empty artists list, after a track that names "Unknown Artist"
C16_Witness ==
    /\ Len(out) = 2
    /\ library[1] = TrackS
    /\ out[1].artists = <<UnknownArtist, <<"C">> >>
    /\ ExpectedArtists(library[2]) = <<>>
    /\ library[2].AlbumArtist.tag = "null"
    /\ out[2].artists = <<>>
    /\ lookupLog = <<Lower(UnknownArtist \o KeySep \o FmtText(Title(library[2])))>>

\* the loop was interrupted while get_genres was running: the last key looked
\* up had not been stored when the interrupt came
InterruptedInFlight ==
    /\ intr.at >= 0
    /\ lookupLog # <<>>
    /\ lookupLog[Len(lookupLog)] \notin DOMAIN intr.cache

\* C17: an interrupt that arrives while get_genres is running for a track
\* changes neither the cache nor the output and starts finalization; from
\* then on the cache holds nothing under that track's key and the output no
\* record for it, and neither do the files a completed finalization leaves;
\* and a run that comes to a track whose key is not in the cache starts a
\* lookup for it (unless it is interrupted first).
C17_InterruptedLookupNotCached ==
    /\ [](InterruptedInFlight =>
            /\ idx \in 1..Len(library)
            /\ GenreCacheKey(library[idx]) = lookupLog[Len(lookupLog)]
            /\ GenreCacheKey(library[idx]) \notin DOMAIN genre_cache
            /\ Len(out) = idx - 1
            /\ (pc = "exited" /\ ~finIntr) =>
                  /\ outFile = JsonFile(out)
                  /\ load_cache(genreFile).ok
                  /\ GenreCacheKey(library[idx]) \notin DOMAIN load_cache(genreFile).cache)
    /\ [][(LookupInFlight /\ intr.at = -1 /\ intr'.at >= 0) =>
            (genre_cache' = genre_cache /\ out' = out /\ pc' = "fin_open_out")]_vars
    /\ [][(/\ pc = "loop" /\ idx <= Len(library)
            /\ ~Truthy(JellyfinGenres(library[idx]))
            /\ GenreCacheKey(library[idx]) \notin DOMAIN genre_cache
            /\ pc' # "fin_open_out") =>
            (pc' = "search" /\ lookupLog' = Append(lookupLog, GenreCacheKey(library[idx])))]_vars

\* the lookup for the second track was interrupted; the run saved the first
\* track's record and entry only
C17_Witness ==
    /\ pc = "exited"
    /\ exitCode = 0
    /\ InterruptedInFlight
    /\ idx = 2
    /\ Len(lookupLog) = 2
    /\ outFile.st = "json"
    /\ Len(outFile.v) = 1
    /\ genreFile = save_cache(genre_cache)
    /\ DOMAIN genre_cache = {lookupLog[1]}

\* C18: the snapshot file a run finds at its start, and the one a run leaves
\* when it ends, is never an empty, truncated or partial file.
C18_SnapshotNeverPartial ==
    /\ ~Malformed(start.lib)
    /\ pc = "exited" => ~Malformed(libFile)

\* C19: until finalization starts, out.json and the genre cache file are as
\* they were at the start of the run; out.json changes only in finalization,
\* by being opened and then given the records, once each; the genre cache
\* file changes only after that, with out.json complete and no longer
\* changing, by being opened and then given the cache, once each; and a run
\* that ends without finalization leaves both files as they were.
C19_WritesOnlyInFinalization ==
    /\ [](/\ (pc \in BeforeTry \cup InTry \cup {"fin_open_out"}) =>
                (outFile = start.out /\ genreFile = start.genre)
          /\ (pc \in {"fin_dump_out", "fin_open_genre"}) => genreFile = start.genre
          /\ (pc \in {"fin_open_genre", "fin_dump_genre"}) => outFile = JsonFile(out)
          /\ (pc = "exited" /\ ~finalized) =>
                (outFile = start.out /\ genreFile = start.genre)
          /\ (pc = "exited" /\ finalized /\ ~finIntr) =>
                (outFile = JsonFile(out) /\ genreFile = save_cache(genre_cache)))
    /\ [][(outFile' # outFile) =>
            /\ finalized
            /\ genreFile' = genreFile /\ genreFile = start.genre
            /\ \/ pc = "fin_open_out" /\ outFile = start.out /\ Malformed(outFile')
               \/ pc = "fin_dump_out" /\ Malformed(outFile) /\ outFile' = JsonFile(out)]_vars
    /\ [][(genreFile' # genreFile) =>
            /\ finalized
            /\ outFile' = outFile /\ outFile = JsonFile(out)
            /\ \/ pc = "fin_open_genre" /\ genreFile = start.genre /\ Malformed(genreFile')
               \/ /\ pc = "fin_dump_genre" /\ Malformed(genreFile)
                  /\ genreFile' = save_cache(genre_cache)]_vars

\* a second run has written its two records to out.json and is about to open
\* the genre cache file, which still holds what the first run saved
C19_Witness ==
    /\ runNo = 2
    /\ pc = "fin_open_genre"
    /\ Len(out) = 2
    /\ outFile = JsonFile(out)
    /\ outFile # start.out
    /\ start.genre.st = "json"
    /\ genreFile = start.genre
    /\ genreFile # save_cache(genre_cache)

====
